---- MODULE Spec2Model ----
(***************************************************************************)
(* The demo servers of backend-communication-design-patterns:              *)
(*   long-polling/long-polling.ts   job status by long polling             *)
(*   short-polling/polling.ts       job status by short polling            *)
(*   the Server-Sent Events server  (unnamed/part_011)                     *)
(*   push/push-server.ts            WebSocket chat                         *)
(* and two functions of the browser code that work with timers:            *)
(*   debounce                       (unnamed/part_001)                     *)
(*   useDelayedState                the hook of details/components         *)
(*                                                                         *)
(* Each of them is a program of its own that listens on port 8080, so one  *)
(* of them runs at a time: server says which.  A server is one Node.js     *)
(* process: every handler and every timer callback runs to completion, so  *)
(* each of them is one action.                                             *)
(*                                                                         *)
(* Time in the long-polling server.  The timers of one job (its processJob and nextStage timers and   *)
(* the timeout timers of the requests held on it) are kept in expiry       *)
(* order with the time left on each; the callback of the earliest of them  *)
(* runs once the time left on it has passed, timers of equal expiry in the *)
(* order they were armed.  Jobs are created at arbitrary times, so the     *)
(* timers of different jobs are not ordered against each other: any job's  *)
(* earliest timer may be the next to expire.  A request arrives at any     *)
(* point between two callbacks; the time left on its timer is counted from *)
(* the last callback of its job, which keeps its place among the job's     *)
(* timers (a later request's timeout expires later, and a stage of the job *)
(* that is pending when the request arrives expires before its timeout).   *)
(***************************************************************************)
EXTENDS Integers, Sequences, FiniteSets, TLC

\* ------------------------------------------------------------------ bounds
MaxJobs == 2
MaxReqs == 2
MaxLoops == 2
MaxLoopJobs == 1
MaxClients == 2
MaxEvents == 2
MaxProgressEvents == 6
MaxCalls == 3
MaxTime == 5
\* the waitTime the debounced function is made with, in ticks of the clock
waitTime == 2
\* the delay the hook is called with, in ticks of the clock
delay == 2

\* ------------------------------------------------------- program constants
PollTimeoutMs == 60000
ProcessJobDelayMs == 1000
FirstStageDelayMs == 2000
StageDelayMs == 5000
NumStages == 10
UpdateIntervalMs == 4000
ProgressStep == 10
CleanupIntervalMs == 300000
MaxAgeMinutes == 10
Symbols == <<"AAPL", "GOOGL", "MSFT", "TSLA", "AMZN">>

VARIABLES
    server,          \* the server that runs
    jobs,            \* jobs: Record<string, Job>, job id -> the job
    currentStage,    \* job id -> the currentStage variable of its processJob closure
    waitingClients,  \* WaitingClient[]: <<[res, jobId, lastKnownStatus, timeout]>>
    timers,          \* job id -> the pending setTimeout timers of the job, in expiry order
    responses,       \* request id -> the kinds of the res.json calls made on its response
    pending,         \* the held requests that have had no response yet:
                     \* request id -> [jobId, stage: the number of stages the job
                     \* had been through when the request was held, connected:
                     \* the client's connection is still there]
    loops,           \* the clients that poll a job in a loop, in the order they
                     \* started: <<[jobId, lastStatus: the status of the last
                     \* answer, res: the request that is under way, or 0]>>
    sent,            \* the response bodies written by the last handler or callback
    submitted,       \* short polling: the number of job ids handed out
    updateIntervals, \* short polling: the jobs whose updateInterval is running
    connectedClients, \* SSE: Map<clientId, res>, the client ids in insertion order
    connections,     \* push: websocket.connection[], as connection ids
    conn,            \* SSE, push: connection id -> the state of the connection
    requestOrigins,  \* push: connection id -> req.origin of its request
    written,         \* SSE, push: connection id -> the frames written to it by
                     \* the last handler or callback
    published,       \* SSE, push: the number of events broadcast so far
    joinedAt,        \* SSE, push: connection id -> the number of events broadcast
                     \* before it became a subscriber
    lastEvent,       \* SSE, push: connection id -> the number of the last
                     \* broadcast event written to it
    stockPrices,     \* SSE: Map<symbol, StockPrice>, symbol -> the event that set the price
    jobProgresses,   \* SSE: Map<jobId, JobProgress>, job id -> [progress, status]
    currentProgress, \* SSE: job id -> the currentProgress variable of its closure
    progressIntervals, \* SSE: the jobs whose progressInterval is running
    now,             \* debounce, hook: the clock, in ticks
    scheduled,       \* debounce, hook: timer handle -> [due, args, pending] of the
                     \* setTimeout call that returned it
    timeout,         \* debounce: the timeout variable of the closure, 0 for undefined
    log,             \* debounce: the calls of the debounced function and the runs
                     \* of func so far, <<[kind, at, args]>>
    hook,            \* hook: [phase, condition, state, timeoutId, frame]
    changedAt        \* hook: the time at which the condition went from true to
                     \* false with the state true, -1 when it is not in that case

longPollingVars == <<currentStage, waitingClients, timers, responses, pending, loops>>
shortPollingVars == <<submitted, updateIntervals>>
streamVars ==
    <<connectedClients, connections, conn, requestOrigins, written, published, joinedAt,
      lastEvent, stockPrices, jobProgresses, currentProgress, progressIntervals>>

timerVars == <<now, scheduled, timeout, log, hook, changedAt>>

vars == <<server, jobs, sent, longPollingVars, shortPollingVars, streamVars, timerVars>>

Servers == {"longPolling", "shortPolling", "sse", "push"}

\* the browser functions, which run without a server
Functions == {"debounce", "useDelayedState"}

\* ------------------------------------------------------------------ inputs
JobIds == 1 .. MaxJobs
NoJobId == 0
JobIdInputs == {NoJobId} \cup JobIds
LastStatusInputs == {"", "pending", "processing", "completed"}

\* ------------------------------------------------------------------ helpers
Range(s) == {s[i] : i \in DOMAIN s}

RemoveAt(s, i) == [k \in 1 .. (Len(s) - 1) |-> IF k < i THEN s[k] ELSE s[k + 1]]

\* const stages = [...] in processJob
stages ==
    [i \in 1 .. NumStages |->
        [status   |-> IF i < NumStages THEN "processing" ELSE "completed",
         progress |-> 10 * i,
         delay    |-> StageDelayMs]]

\* jobs[jobId] = { id, status: 'pending', progress: 0, ... }
NewJob == [status |-> "pending", progress |-> 0, result |-> FALSE]

\* setTimeout(cb, delay): the timer expires after every pending timer of
\* its job that expires no later than it (these are the first n of the
\* job's timers, which are in expiry order).
SetTimeout(ts, t) ==
    LET q == ts[t.jobId]
        n == Cardinality({i \in DOMAIN q : q[i].rem <= t.rem})
    IN  [ts EXCEPT ![t.jobId] =
            [i \in 1 .. (Len(q) + 1) |->
                IF i <= n THEN q[i] ELSE IF i = n + 1 THEN t ELSE q[i - 1]]]

\* clearTimeout(handle) of the timeout timers of poll requests
ClearTimeouts(ts, handles) ==
    [j \in DOMAIN ts |->
        SelectSeq(ts[j], LAMBDA x : ~(x.kind = "pollTimeout" /\ x.res \in handles))]

ClearTimeout(ts, handle) == ClearTimeouts(ts, {handle})

\* the timeout timer of request r is pending in ts
ArmedIn(ts, r) ==
    \E j \in DOMAIN ts : \E i \in DOMAIN ts[j] :
        ts[j][i].kind = "pollTimeout" /\ ts[j][i].res = r

Armed(r) == ArmedIn(timers, r)

\* request r has an entry in the waiter list wc
RegisteredIn(wc, r) == \E i \in DOMAIN wc : wc[i].res = r

InRegistry(r) == RegisteredIn(waitingClients, r)

\* hasJobStatusChanged without its test for an empty lastKnownStatus
hasJobStatusChanged_NoEmptyTest(job, lastKnownStatus) ==
    job.status # lastKnownStatus

\* function hasJobStatusChanged(job, lastKnownStatus)
hasJobStatusChanged(job, lastKnownStatus) ==
    lastKnownStatus # "" /\ job.status # lastKnownStatus

\* ------------------------------------------------------------------ answers
\* res.status(404).json({ error: 'Job not found' })
NotFoundBody ==
    [kind |-> "notFound", jobId |-> NoJobId, status |-> "", progress |-> 0, result |-> FALSE]

\* the immediate answer that reports the job as it was created
ImmediateBody_AsCreated(jobId, job) ==
    [kind |-> "immediate", jobId |-> jobId, status |-> NewJob.status,
     progress |-> NewJob.progress, result |-> NewJob.result]

\* res.json({ jobId, status, progress, result, lastUpdated, immediate: true })
ImmediateBody(jobId, job) ==
    [kind |-> "immediate", jobId |-> jobId, status |-> job.status,
     progress |-> job.progress, result |-> job.result]

\* the timeout answer that reports the job as still processing
TimeoutBody_Processing(jobId, job) ==
    [kind |-> "timeout", jobId |-> jobId, status |-> "processing",
     progress |-> job.progress, result |-> FALSE]

\* res.json({ jobId, status, progress, timeout: true, message })
TimeoutBody(jobId, job) ==
    [kind |-> "timeout", jobId |-> jobId, status |-> job.status,
     progress |-> job.progress, result |-> FALSE]

\* client.res.json({ jobId, status, progress, result, lastUpdated, statusChanged: true })
StatusChangedBody(jobId, job) ==
    [kind |-> "statusChanged", jobId |-> jobId, status |-> job.status,
     progress |-> job.progress, result |-> job.result]

\* res.json({ jobId, message: 'Job created successfully', pollEndpoint })
CreatedBody(jobId) ==
    [kind |-> "created", jobId |-> jobId, status |-> "", progress |-> 0, result |-> FALSE]

Answer(res, body) == [res |-> res, body |-> body]

\* the looping clients once the answers of a step have reached them: a client
\* whose request is answered keeps the status of the answer for its next poll
Delivered(ls, answers) ==
    [c \in DOMAIN ls |->
        IF ls[c].res # 0 /\ \E a \in answers : a.res = ls[c].res
        THEN [ls[c] EXCEPT
                 !.lastStatus = (CHOOSE a \in answers : a.res = ls[c].res).body.status,
                 !.res = 0]
        ELSE ls[c]]

\* the connection of a request is released by the first response written on it
Release(pend, answered) == [r \in (DOMAIN pend) \ answered |-> pend[r]]

\* the hook before its first render
NewHook ==
    [phase |-> "new", condition |-> FALSE, state |-> FALSE, timeoutId |-> 0,
     frame |-> FALSE]

\* ------------------------------------------------------------------ Init
\* the stores of a server that has just started (initializeStocks() included)
Started ==
    /\ jobs = <<>>
    /\ currentStage = <<>>
    /\ waitingClients = <<>>
    /\ timers = <<>>
    /\ responses = <<>>
    /\ pending = <<>>
    /\ loops = <<>>
    /\ sent = {}
    /\ submitted = 0
    /\ updateIntervals = {}
    /\ connectedClients = <<>>
    /\ connections = <<>>
    /\ conn = <<>>
    /\ requestOrigins = <<>>
    /\ written = <<>>
    /\ published = 0
    /\ joinedAt = <<>>
    /\ lastEvent = <<>>
    /\ stockPrices = [symbol \in Range(Symbols) |-> 0]
    /\ jobProgresses = <<>>
    /\ currentProgress = <<>>
    /\ progressIntervals = {}
    /\ now = 0
    /\ scheduled = <<>>
    /\ timeout = 0
    /\ log = <<>>
    /\ hook = NewHook
    /\ changedAt = -1

Init == server = "longPolling" /\ Started

\* ------------------------------------------------------------------ actions
\* POST /create-job
CreateJob ==
    /\ server = "longPolling"
    /\ Len(jobs) < MaxJobs
    /\ LET jobId == Len(jobs) + 1
       IN  /\ jobs' = Append(jobs, NewJob)
           /\ currentStage' = Append(currentStage, 0)
           /\ timers' = SetTimeout(Append(timers, <<>>),
                  [rem |-> ProcessJobDelayMs, kind |-> "processJob", jobId |-> jobId, res |-> 0])
           /\ sent' = {Answer(0, CreatedBody(jobId))}
    /\ UNCHANGED <<waitingClients, responses, pending, loops>>
    /\ UNCHANGED <<server, timerVars, shortPollingVars, streamVars>>

\* the handler of GET /poll-job-status?jobId=..&lastStatus=..
Poll(jobId, lastStatus) ==
    /\ server = "longPolling"
    /\ LET res == Len(responses) + 1
       IN  IF jobId = NoJobId \/ jobId \notin DOMAIN jobs
           THEN /\ responses' = Append(responses, <<"notFound">>)
                /\ sent' = {Answer(res, NotFoundBody)}
                /\ UNCHANGED <<waitingClients, timers, pending>>
           ELSE LET currentJob == jobs[jobId]
                IN  IF hasJobStatusChanged(currentJob, lastStatus)
                    THEN /\ responses' = Append(responses, <<"immediate">>)
                         /\ sent' = {Answer(res, ImmediateBody(jobId, currentJob))}
                         /\ UNCHANGED <<waitingClients, timers, pending>>
                    ELSE /\ timers' = SetTimeout(timers,
                                [rem |-> PollTimeoutMs, kind |-> "pollTimeout",
                                 jobId |-> jobId, res |-> res])
                         /\ waitingClients' = Append(waitingClients,
                                [res |-> res, jobId |-> jobId,
                                 lastKnownStatus |-> currentJob.status, timeout |-> res])
                         /\ responses' = Append(responses, <<>>)
                         /\ pending' = pending @@
                                (res :> [jobId |-> jobId, stage |-> currentStage[jobId],
                                         connected |-> TRUE])
                         /\ sent' = {}
    /\ UNCHANGED <<jobs, currentStage>>
    /\ UNCHANGED <<server, timerVars, shortPollingVars, streamVars>>

\* GET /poll-job-status of a client that polls once
PollJobStatus(jobId, lastStatus) ==
    /\ Len(responses) < MaxReqs
    /\ Poll(jobId, lastStatus)
    /\ UNCHANGED loops

\* a client starts to poll job jobId in a loop: its first poll
StartLoop(jobId, lastStatus) ==
    /\ Len(loops) < MaxLoops
    /\ jobId \in DOMAIN jobs
    /\ Poll(jobId, lastStatus)
    /\ loops' = Delivered(Append(loops, [jobId |-> jobId, lastStatus |-> lastStatus,
                                         res |-> Len(responses) + 1]), sent')

\* looping client c has its answer and the job is not completed: it polls
\* again at once, with the status of that answer as lastStatus
ClientPolls(c) ==
    /\ c \in DOMAIN loops
    /\ loops[c].res = 0
    /\ loops[c].lastStatus # "completed"
    /\ Poll(loops[c].jobId, loops[c].lastStatus)
    /\ loops' = Delivered([loops EXCEPT ![c].res = Len(responses) + 1], sent')

\* The client of a held request goes away.  The handler registers no 'close'
\* listener on the request, so nothing of the server's state changes.
ClientDisconnects(res) ==
    /\ server = "longPolling"
    /\ res \in DOMAIN pending
    /\ pending[res].connected
    /\ pending' = [pending EXCEPT ![res].connected = FALSE]
    /\ sent' = {}
    /\ UNCHANGED <<jobs, currentStage, waitingClients, timers, responses, loops>>
    /\ UNCHANGED <<server, timerVars, shortPollingVars, streamVars>>

\* The callback that runs next for job jobId is that of its earliest pending
\* timer: Due says which kind it is, Expired(ts, jobId) is what stays pending
\* once it has expired, with the time that has passed taken off.
Due(jobId, kind) ==
    /\ jobId \in DOMAIN timers
    /\ timers[jobId] # <<>>
    /\ Head(timers[jobId]).kind = kind

Expired(ts, jobId) ==
    LET q == ts[jobId]
    IN  [ts EXCEPT ![jobId] =
            [i \in 1 .. (Len(q) - 1) |-> [q[i + 1] EXCEPT !.rem = @ - q[1].rem]]]

\* setTimeout(() => processJob(jobId), 1000) fires: processJob(jobId)
ProcessJob(jobId) ==
    /\ Due(jobId, "processJob")
    /\ timers' = SetTimeout(Expired(timers, jobId),
           [rem |-> FirstStageDelayMs, kind |-> "nextStage", jobId |-> jobId, res |-> 0])
    /\ sent' = {}
    /\ UNCHANGED <<jobs, currentStage, waitingClients, responses, pending, loops>>
    /\ UNCHANGED <<server, timerVars, shortPollingVars, streamVars>>

\* ---- notifyWaitingClients(jobId), called with the job already updated ----
\* the filter keeping one client of the job only
clientsForThisJob_First(wc, jobId) ==
    LET all == SelectSeq(wc, LAMBDA client : client.jobId = jobId)
    IN  IF all = <<>> THEN <<>> ELSE <<Head(all)>>

\* the filter without its test of the job id
clientsForThisJob_All(wc, jobId) == wc

\* const clientsForThisJob = waitingClients.filter((client) => client.jobId === jobId)
clientsForThisJob(wc, jobId) == SelectSeq(wc, LAMBDA client : client.jobId = jobId)

\* clientsForThisJob.forEach: client.res.json({..., statusChanged: true})
NotifiedRes(wc, jobId) == {client.res : client \in Range(clientsForThisJob(wc, jobId))}

NotifyResponses(resp, wc, jobId) ==
    LET notified == NotifiedRes(wc, jobId)
    IN  [r \in DOMAIN resp |->
            IF r \in notified THEN Append(resp[r], "statusChanged") ELSE resp[r]]

NotifySent(wc, jobId, job) ==
    {Answer(r, StatusChangedBody(jobId, job)) : r \in NotifiedRes(wc, jobId)}

\* the forEach without its clearTimeout
NotifyTimers_NoClear(ts, wc, jobId) == ts

\* clientsForThisJob.forEach: clearTimeout(client.timeout)
NotifyTimers(ts, wc, jobId) ==
    ClearTimeouts(ts, {client.timeout : client \in Range(clientsForThisJob(wc, jobId))})

\* the notification without its removal loop
NotifyRemaining_Keep(wc, jobId) == wc

\* the loop that splices every entry of jobId out of waitingClients
NotifyRemaining(wc, jobId) == SelectSeq(wc, LAMBDA client : client.jobId # jobId)

\* ---- removeWaitingClient(jobId) ----
\* the index the loop stops at: the last entry of jobId, 0 when there is none
removeWaitingClientIndex(wc, jobId) ==
    LET hits == {i \in DOMAIN wc : wc[i].jobId = jobId}
    IN  IF hits = {} THEN 0 ELSE CHOOSE i \in hits : \A k \in hits : k <= i

\* the stage applied with the result set at every stage
StagedJob_ResultEarly(job, stage) ==
    [status |-> stage.status, progress |-> stage.progress, result |-> TRUE]

\* the stage nextStage applies: stages[currentStage]
StagedJob(job, stage) ==
    [status   |-> stage.status,
     progress |-> stage.progress,
     result   |-> IF stage.status = "completed" THEN TRUE ELSE job.result]

\* setTimeout(nextStage, ...) fires: nextStage()
NextStage(jobId) ==
    /\ Due(jobId, "nextStage")
    /\ LET rest == Expired(timers, jobId)
       IN  IF currentStage[jobId] >= NumStages
           THEN /\ timers' = rest
                /\ sent' = {}
                /\ UNCHANGED <<jobs, currentStage, waitingClients, responses, pending>>
           ELSE LET stage == stages[currentStage[jobId] + 1]
                    job   == StagedJob(jobs[jobId], stage)
                    next  == currentStage[jobId] + 1
                    left  == NotifyTimers(rest, waitingClients, jobId)
                IN  /\ jobs' = [jobs EXCEPT ![jobId] = job]
                    /\ responses' = NotifyResponses(responses, waitingClients, jobId)
                    /\ sent' = NotifySent(waitingClients, jobId, job)
                    /\ pending' = Release(pending, NotifiedRes(waitingClients, jobId))
                    /\ waitingClients' = NotifyRemaining(waitingClients, jobId)
                    /\ currentStage' = [currentStage EXCEPT ![jobId] = next]
                    /\ timers' =
                           IF next < NumStages
                           THEN SetTimeout(left,
                                    [rem |-> stage.delay, kind |-> "nextStage",
                                     jobId |-> jobId, res |-> 0])
                           ELSE left
    /\ loops' = Delivered(loops, sent')
    /\ UNCHANGED <<server, timerVars, shortPollingVars, streamVars>>

\* the timeout callback of a held poll request fires
PollTimeout(jobId) ==
    /\ Due(jobId, "pollTimeout")
    /\ LET res   == Head(timers[jobId]).res
           rest  == Expired(timers, jobId)
           i     == removeWaitingClientIndex(waitingClients, jobId)
       IN  /\ timers' = IF i = 0 THEN rest
                        ELSE ClearTimeout(rest, waitingClients[i].timeout)
           /\ waitingClients' = IF i = 0 THEN waitingClients
                                ELSE RemoveAt(waitingClients, i)
           /\ responses' = [responses EXCEPT ![res] = Append(@, "timeout")]
           /\ sent' = {Answer(res, TimeoutBody(jobId, jobs[jobId]))}
           /\ pending' = Release(pending, {res})
    /\ loops' = Delivered(loops, sent')
    /\ UNCHANGED <<jobs, currentStage>>
    /\ UNCHANGED <<server, timerVars, shortPollingVars, streamVars>>

\* ======================================================================
\* Short polling (short-polling/polling.ts)
\*
\* Time.  A job's updateInterval fires every UpdateIntervalMs after the job
\* was submitted, the cleanup every CleanupIntervalMs after the server
\* started.  Jobs are submitted at arbitrary times, so a job's age at the
\* k-th cleanup of its life is anything from (k - 1) to k cleanup intervals:
\* job.cleanups counts these cleanups and stands for createdAt.
\* ======================================================================
\* jobs[jobId] = { id, progress: 0, status: 'processing', createdAt }
SubmittedJob == [status |-> "processing", progress |-> 0, cleanups |-> 0]

\* res.json({ jobId, message, statusEndpoint })
SubmittedBody(jobId) ==
    [kind |-> "submitted", jobId |-> jobId, status |-> "", progress |-> 0, result |-> FALSE]

\* res.status(404).json({ error: 'Job not found', jobId })
JobNotFoundBody(jobId) ==
    [kind |-> "notFound", jobId |-> jobId, status |-> "", progress |-> 0, result |-> FALSE]

\* the check that answers a missing jobId like an unknown one
JobIdRequiredBody_NotFound == JobNotFoundBody(NoJobId)

\* res.status(400).json({ error: 'jobId parameter is required' })
JobIdRequiredBody ==
    [kind |-> "jobIdRequired", jobId |-> NoJobId, status |-> "", progress |-> 0,
     result |-> FALSE]

\* the status answer that reports every job as complete
StatusBody_AlwaysComplete(jobId, job) ==
    [kind |-> "status", jobId |-> jobId, status |-> job.status, progress |-> job.progress,
     result |-> TRUE]

\* res.json({ jobId, progress, status, createdAt, isComplete }); result is isComplete
StatusBody(jobId, job) ==
    [kind |-> "status", jobId |-> jobId, status |-> job.status, progress |-> job.progress,
     result |-> (job.status = "completed" \/ job.status = "failed")]

\* POST /submit
Submit ==
    /\ server = "shortPolling"
    /\ submitted < MaxJobs
    /\ LET jobId == submitted + 1
       IN  /\ jobs' = jobs @@ (jobId :> SubmittedJob)
           /\ updateIntervals' = updateIntervals \cup {jobId}
           /\ submitted' = jobId
           /\ sent' = {Answer(0, SubmittedBody(jobId))}
    /\ UNCHANGED <<server, timerVars, longPollingVars, streamVars>>

\* GET /check-status?jobId=..
CheckStatus(jobId) ==
    /\ server = "shortPolling"
    /\ sent' = {Answer(0,
           IF jobId = NoJobId THEN JobIdRequiredBody
           ELSE IF jobId \notin DOMAIN jobs THEN JobNotFoundBody(jobId)
           ELSE StatusBody(jobId, jobs[jobId]))}
    /\ UNCHANGED <<server, timerVars, jobs, longPollingVars, shortPollingVars, streamVars>>

\* the update that reaches 100 and leaves the status as it is
UpdatedJob_StatusKept(job) ==
    LET progress == job.progress + ProgressStep
    IN  [job EXCEPT !.progress = IF progress >= 100 THEN 100 ELSE progress]

\* currentJob.progress += 10; at 100 or more: progress = 100, status = 'completed'
UpdatedJob(job) ==
    LET progress == job.progress + ProgressStep
    IN  IF progress >= 100
        THEN [job EXCEPT !.progress = 100, !.status = "completed"]
        ELSE [job EXCEPT !.progress = progress]

\* the callback of setInterval(..., 4000) in startJobProcessing(jobId)
UpdateProgress(jobId) ==
    /\ server = "shortPolling"
    /\ jobId \in updateIntervals
    /\ IF jobId \notin DOMAIN jobs
       THEN /\ updateIntervals' = updateIntervals \ {jobId}
            /\ UNCHANGED jobs
       ELSE LET job == UpdatedJob(jobs[jobId])
            IN  /\ jobs' = [jobs EXCEPT ![jobId] = job]
                /\ updateIntervals' =
                       IF job.status = "completed" THEN updateIntervals \ {jobId}
                       ELSE updateIntervals
    /\ sent' = {}
    /\ UNCHANGED <<server, timerVars, submitted, longPollingVars, streamVars>>

\* the least and the greatest age of a job at the k-th cleanup of its life
AgeAtLeast(k) == (k - 1) * CleanupIntervalMs
AgeAtMost(k) == k * CleanupIntervalMs

\* the age test that takes five minutes for ten
Old_FiveMinutes(ageMs) == ageMs > 5 * 60 * 1000

\* ageInMinutes > 10, with the age in milliseconds
Old(ageMs) == ageMs > MaxAgeMinutes * 60 * 1000

\* the updates of a job that have run once it is ageMs old
UpdatesBy(ageMs) == Cardinality({i \in 1 .. (100 \div ProgressStep) : i * UpdateIntervalMs < ageMs})

\* (job.status === 'completed' || job.status === 'failed')
Finished(job) == job.status = "completed" \/ job.status = "failed"

\* the cleanup that deletes whatever is finished, of any age
CleanupDeletes_AnyAge(old) == {jobId \in DOMAIN jobs : Finished(jobs[jobId])}

\* the jobs the cleanup deletes, old being those it finds older than 10 minutes
CleanupDeletes(old) == {jobId \in old : Finished(jobs[jobId])}

\* the callback of setInterval(..., 5 * 60 * 1000): the cleanup of old jobs.
\* It runs once every update due before it has run.
Cleanup ==
    /\ server = "shortPolling"
    /\ \A jobId \in DOMAIN jobs :
           jobs[jobId].progress >=
               ProgressStep * UpdatesBy(AgeAtLeast(jobs[jobId].cleanups + 1))
    /\ \E old \in SUBSET (DOMAIN jobs) :
           /\ \A jobId \in DOMAIN jobs :
                  /\ Old(AgeAtLeast(jobs[jobId].cleanups + 1)) => jobId \in old
                  /\ jobId \in old => Old(AgeAtMost(jobs[jobId].cleanups + 1))
           /\ LET deleted == CleanupDeletes(old)
              IN  jobs' = [jobId \in (DOMAIN jobs) \ deleted |->
                              [jobs[jobId] EXCEPT !.cleanups = @ + 1]]
    /\ sent' = {}
    /\ UNCHANGED <<server, timerVars, longPollingVars, shortPollingVars, streamVars>>

\* ======================================================================
\* Server-Sent Events server (unnamed/part_011)
\*
\* A connection is "open"; "ended" once its response has been ended
\* (res.writableEnded); "broken" once a write on its response throws;
\* "closed" once 'close' has been emitted on its request.  The heartbeat
\* comment lines are not events and are left out.
\* ======================================================================
\* the types of the notifications drawn from, by a request and by the timer
NotificationTypes == {"new_message", "system_alert"}
AutoNotificationTypes == {"system_alert"}

\* the symbols drawn from for a price update
SymbolInputs == {Symbols[1], Symbols[Len(Symbols)]}

\* Math.random() * 25, in tenths: 0 and 24.9
ProgressIncrements == {0, 249}

\* an event as written to a connection; n numbers the broadcasts, 0 for
\* what is written to one connection only
Frame(type, n, key, id, value, status) ==
    [type |-> type, n |-> n, key |-> key, id |-> id, value |-> value, status |-> status]

\* { id: clientId, type: 'connection', data: { message, clientId, timestamp } }
ConnectionEvent(clientId) == Frame("connection", 0, "", clientId, 0, "")

\* { id, type: 'stock_price', data: stock }
StockPriceEvent(n, symbol, price) == Frame("stock_price", n, symbol, 0, price, "")

\* { id, type: 'job_progress', data: job }
JobProgressEvent(n, jobId, job) ==
    Frame("job_progress", n, "", jobId, job.progress, job.status)

\* { id, type: randomNotification.type, data }
NotificationEvent(n, type) == Frame(type, n, "", 0, 0, "")

\* res.json({ success: true, ... })
SuccessBody ==
    [kind |-> "success", jobId |-> NoJobId, status |-> "", progress |-> 0, result |-> TRUE]

\* the answer of express to a handler that throws
ServerErrorBody ==
    [kind |-> "serverError", jobId |-> NoJobId, status |-> "", progress |-> 0,
     result |-> FALSE]

\* function sendSSEEvent(res, event) on a connection in state st: the frames
\* it writes, and whether it throws.  On a broken connection res.write
\* throws in the try block and again in the catch block.
sendSSEEvent(st, event) ==
    IF st = "open" THEN [frames |-> <<event>>, throws |-> FALSE]
    ELSE IF st = "broken" THEN [frames |-> <<>>, throws |-> TRUE]
    ELSE [frames |-> <<>>, throws |-> FALSE]

\* the forEach callback without its try and catch
CallbackThrows_NoCatch(st, event) == st # "ended" /\ sendSSEEvent(st, event).throws

\* the callback of connectedClients.forEach throws: never, it catches
CallbackThrows(st, event) == FALSE

\* the clients forEach gets to: all of them unless a callback throws
Visited(clients, event) ==
    LET thrown == {i \in DOMAIN clients : CallbackThrows(conn[clients[i]], event)}
    IN  IF thrown = {} THEN clients
        ELSE SubSeq(clients, 1, CHOOSE i \in thrown : \A k \in thrown : i <= k)

\* broadcastToAllClients(event) throws
BroadcastThrows(clients, event) ==
    \E i \in DOMAIN clients : CallbackThrows(conn[clients[i]], event)

\* the callback that deletes no client
Deletes_Never(st, event) == FALSE

\* the callback deletes the client: connectedClients.delete(clientId)
Deletes(st, event) ==
    \/ st = "ended"
    \/ sendSSEEvent(st, event).throws /\ ~CallbackThrows(st, event)

\* the callback that writes to the first client only
Writes_FirstOnly(clients, c, event) ==
    IF clients # <<>> /\ c = clients[1] /\ conn[c] # "ended"
    THEN sendSSEEvent(conn[c], event).frames ELSE <<>>

\* the callback that writes the event before it once more after the event
Writes_PreviousAgain(clients, c, event) ==
    IF c \in Range(clients) /\ conn[c] = "open"
    THEN <<event, [event EXCEPT !.n = @ - 1]>> ELSE <<>>

\* what the callback writes to client c
Writes(clients, c, event) ==
    IF c \in Range(Visited(clients, event)) /\ conn[c] # "ended"
    THEN sendSSEEvent(conn[c], event).frames
    ELSE <<>>

NoFrames == [c \in DOMAIN conn |-> <<>>]

\* function broadcastToAllClients(event), event.n being the number of the broadcast
broadcastToAllClients(event) ==
    /\ connectedClients' =
           SelectSeq(connectedClients,
               LAMBDA c : ~(c \in Range(Visited(connectedClients, event))
                            /\ Deletes(conn[c], event)))
    /\ written' = [c \in DOMAIN conn |-> Writes(connectedClients, c, event)]
    /\ published' = event.n
    /\ lastEvent' = [c \in DOMAIN conn |->
                        IF Writes(connectedClients, c, event) # <<>> THEN event.n
                        ELSE lastEvent[c]]

\* function sendCurrentStockPrices(res), on a new connection
sendCurrentStockPrices ==
    [i \in DOMAIN Symbols |-> StockPriceEvent(0, Symbols[i], stockPrices[Symbols[i]])]

\* function sendCurrentJobs(res), on a new connection
sendCurrentJobs ==
    [jobId \in DOMAIN jobProgresses |-> JobProgressEvent(0, jobId, jobProgresses[jobId])]

\* the handler that sends the snapshot before the welcome event
Greeting_SnapshotFirst(clientId) ==
    sendCurrentStockPrices \o sendCurrentJobs \o <<ConnectionEvent(clientId)>>

\* the handler that also replays the last broadcast to the new client
Greeting_Replay(clientId) ==
    <<ConnectionEvent(clientId), NotificationEvent(published, "system_alert")>>

\* sendSSEEvent(res, welcomeEvent); sendCurrentStockPrices(res); sendCurrentJobs(res)
Greeting(clientId) ==
    <<ConnectionEvent(clientId)>> \o sendCurrentStockPrices \o sendCurrentJobs

\* GET /events
Events ==
    /\ server = "sse"
    /\ Len(conn) < MaxClients
    /\ LET clientId == Len(conn) + 1
       IN  /\ conn' = Append(conn, "open")
           /\ connectedClients' = Append(connectedClients, clientId)
           /\ written' = [c \in 1 .. clientId |->
                             IF c = clientId THEN Greeting(clientId) ELSE <<>>]
           /\ joinedAt' = Append(joinedAt, published)
           /\ lastEvent' = Append(lastEvent, 0)
    /\ sent' = {}
    /\ UNCHANGED <<server, timerVars, jobs, longPollingVars, shortPollingVars,
                   requestOrigins, connections, published,
                   stockPrices, jobProgresses, currentProgress, progressIntervals>>

\* the 'close' listener that deletes nothing
WithoutClient_Keep(clients, clientId) == clients

\* the 'close' listener that sets the client when it is not there
WithoutClient_Toggle(clients, clientId) ==
    IF clientId \in Range(clients)
    THEN SelectSeq(clients, LAMBDA c : c # clientId)
    ELSE Append(clients, clientId)

\* connectedClients.delete(clientId)
WithoutClient(clients, clientId) == SelectSeq(clients, LAMBDA c : c # clientId)

\* req.on('close', ...): connectedClients.delete(clientId)
ClientCloses(clientId) ==
    /\ server = "sse"
    /\ clientId \in DOMAIN conn
    /\ conn[clientId] # "closed"
    /\ conn' = [conn EXCEPT ![clientId] = "closed"]
    /\ connectedClients' = WithoutClient(connectedClients, clientId)
    /\ written' = NoFrames
    /\ sent' = {}
    /\ UNCHANGED <<server, timerVars, jobs, longPollingVars, shortPollingVars,
                   requestOrigins, connections, published,
                   joinedAt, lastEvent, stockPrices, jobProgresses, currentProgress,
                   progressIntervals>>

\* the response of a client is ended, or writes on it start to throw
ResponseFails(clientId, st) ==
    /\ server = "sse"
    /\ clientId \in DOMAIN conn
    /\ conn[clientId] = "open"
    /\ conn' = [conn EXCEPT ![clientId] = st]
    /\ written' = NoFrames
    /\ sent' = {}
    /\ UNCHANGED <<server, timerVars, jobs, longPollingVars, shortPollingVars,
                   requestOrigins, connectedClients,
                   connections, published, joinedAt, lastEvent, stockPrices, jobProgresses,
                   currentProgress, progressIntervals>>

\* res.json({ success: true, ... }) after the broadcast
Succeeds(event) ==
    sent' = {Answer(0, IF BroadcastThrows(connectedClients, event)
                       THEN ServerErrorBody ELSE SuccessBody)}

\* POST /simulate/stock-update, symbol being the one drawn
SimulateStockUpdate(symbol) ==
    /\ server = "sse"
    /\ published < MaxEvents
    /\ LET n == published + 1
       IN  /\ stockPrices' = [stockPrices EXCEPT ![symbol] = n]
           /\ broadcastToAllClients(StockPriceEvent(n, symbol, n))
           /\ Succeeds(StockPriceEvent(n, symbol, n))
    /\ UNCHANGED <<server, timerVars, jobs, longPollingVars, shortPollingVars,
                   requestOrigins, connections, conn,
                   joinedAt, jobProgresses, currentProgress, progressIntervals>>

\* POST /simulate/notification, type being that of the notification drawn
SimulateNotification(type) ==
    /\ server = "sse"
    /\ published < MaxEvents
    /\ broadcastToAllClients(NotificationEvent(published + 1, type))
    /\ Succeeds(NotificationEvent(published + 1, type))
    /\ UNCHANGED <<server, timerVars, jobs, longPollingVars, shortPollingVars,
                   requestOrigins, connections, conn,
                   joinedAt, stockPrices, jobProgresses, currentProgress,
                   progressIntervals>>

\* const job = { jobId, progress: 0, status: 'running', message }
StartedJob == [progress |-> 0, status |-> "running"]

\* POST /simulate/start-job
StartJob ==
    /\ server = "sse"
    /\ published < MaxEvents
    /\ Len(jobProgresses) < MaxJobs
    /\ LET jobId == Len(jobProgresses) + 1
           event == JobProgressEvent(published + 1, jobId, StartedJob)
       IN  /\ jobProgresses' = Append(jobProgresses, StartedJob)
           /\ currentProgress' = Append(currentProgress, 0)
           /\ progressIntervals' = progressIntervals \cup {jobId}
           /\ broadcastToAllClients(event)
           /\ Succeeds(event)
    /\ UNCHANGED <<server, timerVars, jobs, longPollingVars, shortPollingVars,
                   requestOrigins, connections, conn,
                   joinedAt, stockPrices>>

\* Math.round(x), x being given in tenths
MathRound(tenths) == (tenths + 5) \div 10

\* the callback of progressInterval, increment being Math.random() * 25 in
\* tenths; currentProgress is kept in tenths, job.progress in whole points
ProgressCallback(jobId, increment) ==
    /\ server = "sse"
    /\ jobId \in progressIntervals
    /\ LET progress == currentProgress[jobId] + increment
           job == IF progress >= 100 * 10
                  THEN [progress |-> 100, status |-> "completed"]
                  ELSE [progress |-> MathRound(progress),
                        status |-> jobProgresses[jobId].status]
       IN  /\ currentProgress' =
                  [currentProgress EXCEPT ![jobId] =
                      IF progress >= 100 * 10 THEN 100 * 10 ELSE progress]
           /\ progressIntervals' =
                  IF progress >= 100 * 10 THEN progressIntervals \ {jobId}
                  ELSE progressIntervals
           /\ jobProgresses' = [jobProgresses EXCEPT ![jobId] = job]
           /\ broadcastToAllClients(JobProgressEvent(published + 1, jobId, job))
    /\ sent' = {}
    /\ UNCHANGED <<server, timerVars, jobs, longPollingVars, shortPollingVars,
                   requestOrigins, connections, conn,
                   joinedAt, stockPrices>>

\* the callback among the first MaxEvents broadcasts
JobProgressTick(jobId, increment) ==
    /\ published < MaxEvents
    /\ ProgressCallback(jobId, increment)

\* the callback among the first MaxProgressEvents broadcasts
JobProgressRuns(jobId, increment) ==
    /\ published < MaxProgressEvents
    /\ ProgressCallback(jobId, increment)

\* the callback of setInterval(..., 5000) in startAutoSimulation
AutoStockUpdate(symbol) ==
    /\ server = "sse"
    /\ published < MaxEvents
    /\ IF Len(connectedClients) > 0
       THEN LET n == published + 1
            IN  /\ stockPrices' = [stockPrices EXCEPT ![symbol] = n]
                /\ broadcastToAllClients(StockPriceEvent(n, symbol, n))
       ELSE /\ written' = NoFrames
            /\ UNCHANGED <<stockPrices, connectedClients, published, lastEvent>>
    /\ sent' = {}
    /\ UNCHANGED <<server, timerVars, jobs, longPollingVars, shortPollingVars,
                   requestOrigins, connections, conn,
                   joinedAt, jobProgresses, currentProgress, progressIntervals>>

\* the callback of setInterval(..., 15000) in startAutoSimulation
AutoNotification(type) ==
    /\ server = "sse"
    /\ published < MaxEvents
    /\ IF Len(connectedClients) > 0
       THEN broadcastToAllClients(NotificationEvent(published + 1, type))
       ELSE /\ written' = NoFrames
            /\ UNCHANGED <<connectedClients, published, lastEvent>>
    /\ sent' = {}
    /\ UNCHANGED <<server, timerVars, jobs, longPollingVars, shortPollingVars,
                   requestOrigins, connections, conn,
                   joinedAt, stockPrices, jobProgresses, currentProgress,
                   progressIntervals>>

SseNext ==
    \/ Events
    \/ \E clientId \in 1 .. MaxClients : ClientCloses(clientId)
    \/ \E clientId \in 1 .. MaxClients, st \in {"ended", "broken"} :
           ResponseFails(clientId, st)
    \/ \E symbol \in SymbolInputs : SimulateStockUpdate(symbol)
    \/ \E type \in NotificationTypes : SimulateNotification(type)
    \/ StartJob
    \/ \E jobId \in JobIds, increment \in ProgressIncrements :
           JobProgressTick(jobId, increment)
    \/ \E symbol \in SymbolInputs : AutoStockUpdate(symbol)
    \/ \E type \in AutoNotificationTypes : AutoNotification(type)

\* ======================================================================
\* WebSocket chat server (push/push-server.ts)
\*
\* A connection is "connected"; "closing" once its connected flag is false
\* and its 'close' event has not been emitted yet; "closed" after that
\* event; "rejected" when the request was never accepted.
\* ======================================================================
allowedOrigins ==
    {"http://localhost:8080", "http://127.0.0.1:8080", "https://be.ngockhoi96.dev", "null"}

Origins == {"http://localhost:8080", "http://evil.example", ""}

\* the check that lets every origin in
originIsAllowed_Any(origin) == TRUE

\* function originIsAllowed(origin)
originIsAllowed(origin) == origin \in allowedOrigins \/ origin = ""

\* `User${port} has joined the chat`
JoinedMessage(connection) == Frame("joined", 0, "", connection, 0, "")

\* `Welcome! You are User${port}. There are ${connections.length} users online.`
WelcomeMessage(connection, count) == Frame("welcome", 0, "", connection, count, "")

\* `User${port} has left the chat`
LeftMessage(connection) == Frame("left", 0, "", connection, 0, "")

\* `User${port} says: ${message}`
SaysMessage(n, connection) == Frame("says", n, "", connection, 0, "")

\* connections.forEach((conn) => { if (conn.connected) conn.send(message) });
\* send on a connection that is connected does not throw
SendToConnected(list, message) ==
    [c \in DOMAIN conn |->
        IF c \in Range(list) /\ conn[c] = "connected" THEN <<message>> ELSE <<>>]

\* wsServer.on('request')
Request(origin) ==
    /\ server = "push"
    /\ Len(conn) < MaxClients
    /\ LET connection == Len(conn) + 1
       IN  IF ~originIsAllowed(origin)
           THEN /\ conn' = Append(conn, "rejected")
                /\ written' = [c \in 1 .. connection |-> <<>>]
                /\ UNCHANGED connections
           ELSE /\ conn' = Append(conn, "connected")
                /\ connections' = Append(connections, connection)
                /\ written' =
                       [c \in 1 .. connection |->
                           IF c = connection
                           THEN <<WelcomeMessage(connection, Len(connections) + 1)>>
                           ELSE SendToConnected(connections, JoinedMessage(connection))[c]]
    /\ requestOrigins' = Append(requestOrigins, origin)
    /\ joinedAt' = Append(joinedAt, published)
    /\ lastEvent' = Append(lastEvent, 0)
    /\ sent' = {}
    /\ UNCHANGED <<server, timerVars, jobs, longPollingVars, shortPollingVars, connectedClients,
                   published, stockPrices, jobProgresses, currentProgress,
                   progressIntervals>>

\* connection.on('message'), utf8 being msg.type === 'utf8'
Message(connection, utf8) ==
    /\ server = "push"
    /\ published < MaxEvents
    /\ connection \in DOMAIN conn
    /\ conn[connection] = "connected"
    /\ IF utf8
       THEN LET message == SaysMessage(published + 1, connection)
            IN  /\ written' = SendToConnected(connections, message)
                /\ published' = published + 1
                /\ lastEvent' = [c \in DOMAIN conn |->
                                    IF SendToConnected(connections, message)[c] # <<>>
                                    THEN published + 1 ELSE lastEvent[c]]
       ELSE /\ written' = NoFrames
            /\ UNCHANGED <<published, lastEvent>>
    /\ sent' = {}
    /\ UNCHANGED <<server, timerVars, jobs, longPollingVars, shortPollingVars,
                   requestOrigins, connectedClients,
                   connections, conn, joinedAt, stockPrices, jobProgresses,
                   currentProgress, progressIntervals>>

\* the peer closes: the connection is no longer connected, its 'close'
\* event follows
PeerCloses(connection) ==
    /\ server = "push"
    /\ connection \in DOMAIN conn
    /\ conn[connection] = "connected"
    /\ conn' = [conn EXCEPT ![connection] = "closing"]
    /\ written' = NoFrames
    /\ sent' = {}
    /\ UNCHANGED <<server, timerVars, jobs, longPollingVars, shortPollingVars,
                   requestOrigins, connectedClients,
                   connections, published, joinedAt, lastEvent, stockPrices,
                   jobProgresses, currentProgress, progressIntervals>>

\* the 'close' listener that leaves connections as it is
WithoutConnection_Keep(list, connection) == list

\* const index = connections.indexOf(connection);
\* if (index !== -1) connections.splice(index, 1)
WithoutConnection(list, connection) ==
    LET hits == {i \in DOMAIN list : list[i] = connection}
    IN  IF hits = {} THEN list
        ELSE RemoveAt(list, CHOOSE i \in hits : \A k \in hits : i <= k)

\* connection.on('close')
ConnectionClose(connection) ==
    /\ server = "push"
    /\ connection \in DOMAIN conn
    /\ conn[connection] \in {"connected", "closing"}
    /\ LET rest == WithoutConnection(connections, connection)
       IN  /\ connections' = rest
           /\ written' = [SendToConnected(rest, LeftMessage(connection))
                             EXCEPT ![connection] = <<>>]
    /\ conn' = [conn EXCEPT ![connection] = "closed"]
    /\ sent' = {}
    /\ UNCHANGED <<server, timerVars, jobs, longPollingVars, shortPollingVars,
                   requestOrigins, connectedClients,
                   published, joinedAt, lastEvent, stockPrices, jobProgresses,
                   currentProgress, progressIntervals>>

PushNext ==
    \/ \E origin \in Origins : Request(origin)
    \/ \E connection \in 1 .. MaxClients, utf8 \in BOOLEAN : Message(connection, utf8)
    \/ \E connection \in 1 .. MaxClients : PeerCloses(connection)
    \/ \E connection \in 1 .. MaxClients : ConnectionClose(connection)

\* ======================================================================
\* Browser timers (debounce of unnamed/part_001, the useDelayedState hook)
\*
\* Time is counted in ticks of a clock.  The callback of a timer runs at
\* the tick the timer is due: the clock does not go on while a timer that
\* is due is pending.  What happens at one tick happens in any order.
\* ======================================================================
\* the arguments the debounced function is called with
ArgsInputs == {"we", "we bare"}

\* setTimeout(cb, ms): the timers with the new one; its handle is its index
Schedule(sched, ms, args) ==
    Append(sched, [due |-> now + ms, args |-> args, pending |-> TRUE])

\* clearTimeout(handle)
clearTimeout(sched, handle) ==
    [h \in DOMAIN sched |->
        IF h = handle THEN [sched[h] EXCEPT !.pending = FALSE] ELSE sched[h]]

\* the debounced function without its clearTimeout
Cancelled_Keep(sched, handle) == sched

\* if (timeout) clearTimeout(timeout)
Cancelled(sched, handle) == IF handle # 0 THEN clearTimeout(sched, handle) ELSE sched

Calls == SelectSeq(log, LAMBDA e : e.kind = "call")

\* the function debounce returns, called with args
DebouncedCall(args) ==
    /\ server = "debounce"
    /\ Len(Calls) < MaxCalls
    /\ scheduled' = Schedule(Cancelled(scheduled, timeout), waitTime, args)
    /\ timeout' = Len(scheduled) + 1
    /\ log' = Append(log, [kind |-> "call", at |-> now, args |-> args])
    /\ UNCHANGED <<now, hook, changedAt>>
    /\ UNCHANGED <<server, jobs, sent, longPollingVars, shortPollingVars, streamVars>>

\* timer handle is pending and due
IsDue(handle) ==
    /\ handle \in DOMAIN scheduled
    /\ scheduled[handle].pending
    /\ scheduled[handle].due <= now

\* the callback of the timer: () => func(...args)
FuncRuns(handle) ==
    /\ server = "debounce"
    /\ IsDue(handle)
    /\ scheduled' = clearTimeout(scheduled, handle)
    /\ log' = Append(log, [kind |-> "run", at |-> now, args |-> scheduled[handle].args])
    /\ UNCHANGED <<now, timeout, hook, changedAt>>
    /\ UNCHANGED <<server, jobs, sent, longPollingVars, shortPollingVars, streamVars>>

\* the clock goes on by one tick
Tick ==
    /\ server \in Functions
    /\ now < MaxTime
    /\ \A handle \in DOMAIN scheduled : ~IsDue(handle)
    /\ ~hook.frame
    /\ now' = now + 1
    /\ UNCHANGED <<scheduled, timeout, log, hook, changedAt>>
    /\ UNCHANGED <<server, jobs, sent, longPollingVars, shortPollingVars, streamVars>>

\* ---- useDelayedState(condition, delay), as its test and its caller
\* describe it.  It keeps a state that starts as
\* the condition; an effect that runs when the condition has changed sets
\* the state to true at the next animation frame, or to false by a timer of
\* delay, and the cleanup of the effect clears that timer.  Whether the
\* cleanup cancels a pending animation frame is left open.  An animation
\* frame runs before the clock goes on.
\* the cleanup of the effect without its clearTimeout
EffectCleanup_Keep(sched, handle) == sched

\* the cleanup of the effect: clearTimeout(timeoutId)
EffectCleanup(sched, handle) ==
    IF handle # 0 THEN clearTimeout(sched, handle) ELSE sched

\* the effect, run with the condition of the render, after the cleanup of
\* the effect of the render before
Effect(condition, cleaned) ==
    IF condition
    THEN /\ scheduled' = cleaned
         /\ hook' = [hook EXCEPT !.phase = "mounted", !.condition = TRUE,
                                 !.timeoutId = 0, !.frame = TRUE]
    ELSE /\ scheduled' = Schedule(cleaned, delay, "")
         /\ \E cancelled \in BOOLEAN :
                hook' = [hook EXCEPT !.phase = "mounted", !.condition = FALSE,
                                    !.timeoutId = Len(scheduled) + 1,
                                    !.frame = IF cancelled THEN FALSE ELSE @]

\* the first render, renderHook(() => useDelayedState(condition))
Mount(condition) ==
    /\ server = "useDelayedState"
    /\ hook.phase = "new"
    /\ IF condition
       THEN /\ scheduled' = scheduled
            /\ hook' = [NewHook EXCEPT !.phase = "mounted", !.condition = TRUE,
                                       !.state = TRUE, !.frame = TRUE]
       ELSE /\ scheduled' = Schedule(scheduled, delay, "")
            /\ hook' = [NewHook EXCEPT !.phase = "mounted",
                                       !.timeoutId = Len(scheduled) + 1]
    /\ UNCHANGED <<now, timeout, log, changedAt>>
    /\ UNCHANGED <<server, jobs, sent, longPollingVars, shortPollingVars, streamVars>>

\* rerender({ condition }) with a condition that has changed
Rerender(condition) ==
    /\ server = "useDelayedState"
    /\ hook.phase = "mounted"
    /\ condition # hook.condition
    /\ Len(scheduled) < MaxCalls
    /\ Effect(condition, EffectCleanup(scheduled, hook.timeoutId))
    /\ changedAt' = IF ~condition /\ hook.state THEN now ELSE -1
    /\ UNCHANGED <<now, timeout, log>>
    /\ UNCHANGED <<server, jobs, sent, longPollingVars, shortPollingVars, streamVars>>

\* the animation frame asked for by the effect: setState(true)
AnimationFrame ==
    /\ server = "useDelayedState"
    /\ hook.frame
    /\ hook' = [hook EXCEPT !.frame = FALSE,
                            !.state = IF hook.phase = "mounted" THEN TRUE ELSE @]
    /\ UNCHANGED <<now, scheduled, timeout, log, changedAt>>
    /\ UNCHANGED <<server, jobs, sent, longPollingVars, shortPollingVars, streamVars>>

\* the callback of the timer of the effect: setState(false), which does
\* nothing on a hook that is no longer mounted
TimeoutFires(handle) ==
    /\ server = "useDelayedState"
    /\ IsDue(handle)
    /\ scheduled' = clearTimeout(scheduled, handle)
    /\ hook' = [hook EXCEPT !.state = IF hook.phase = "mounted" THEN FALSE ELSE @]
    /\ UNCHANGED <<now, timeout, log, changedAt>>
    /\ UNCHANGED <<server, jobs, sent, longPollingVars, shortPollingVars, streamVars>>

\* unmount(): the cleanup of the effect runs
Unmount ==
    /\ server = "useDelayedState"
    /\ hook.phase = "mounted"
    /\ scheduled' = EffectCleanup(scheduled, hook.timeoutId)
    /\ hook' = [hook EXCEPT !.phase = "unmounted"]
    /\ changedAt' = -1
    /\ UNCHANGED <<now, timeout, log>>
    /\ UNCHANGED <<server, jobs, sent, longPollingVars, shortPollingVars, streamVars>>

HookNext ==
    \/ \E condition \in BOOLEAN : Mount(condition)
    \/ \E condition \in BOOLEAN : Rerender(condition)
    \/ AnimationFrame
    \/ \E handle \in 1 .. MaxCalls : TimeoutFires(handle)
    \/ Unmount

DebounceNext ==
    \/ \E args \in ArgsInputs : DebouncedCall(args)
    \/ \E handle \in 1 .. MaxCalls : FuncRuns(handle)
    \/ Tick

ShortPollingNext ==
    \/ Submit
    \/ \E jobId \in JobIdInputs : CheckStatus(jobId)
    \/ \E jobId \in JobIds : UpdateProgress(jobId)
    \/ Cleanup

Next ==
    \/ CreateJob
    \/ \E jobId \in JobIdInputs, lastStatus \in LastStatusInputs :
           PollJobStatus(jobId, lastStatus)
    \/ \E jobId \in JobIds : ProcessJob(jobId)
    \/ \E jobId \in JobIds : NextStage(jobId)
    \/ \E jobId \in JobIds : PollTimeout(jobId)

Spec == Init /\ [][Next]_vars

\* the first lastStatus of a looping client: none, or that of a new job
FirstStatusInputs == {"", "pending"}

\* the long-polling server with clients that poll in a loop
LoopNext ==
    \/ Len(jobs) < MaxLoopJobs /\ CreateJob
    \/ \E jobId \in JobIds : ProcessJob(jobId)
    \/ \E jobId \in JobIds : NextStage(jobId)
    \/ \E jobId \in JobIds : PollTimeout(jobId)
    \/ \E jobId \in JobIds, lastStatus \in FirstStatusInputs : StartLoop(jobId, lastStatus)
    \/ \E c \in 1 .. MaxLoops : ClientPolls(c)

LoopSpec == Init /\ [][LoopNext]_vars

\* every timer fires, and a looping client that has its answer polls again
LoopFairSpec ==
    /\ LoopSpec
    /\ \A jobId \in JobIds : WF_vars(ProcessJob(jobId))
    /\ \A jobId \in JobIds : WF_vars(NextStage(jobId))
    /\ \A jobId \in JobIds : WF_vars(PollTimeout(jobId))
    /\ \A c \in 1 .. MaxLoops : WF_vars(ClientPolls(c))

\* the long-polling server with clients that go away while they are held
DisconnectNext == Next \/ \E res \in 1 .. MaxReqs : ClientDisconnects(res)

DisconnectSpec == Init /\ [][DisconnectNext]_vars

\* the two job servers
PollingInit == server \in {"longPolling", "shortPolling"} /\ Started

PollingNext == Next \/ ShortPollingNext

PollingSpec == PollingInit /\ [][PollingNext]_vars

\* the two job servers, every running interval timer of the short-polling
\* server firing again and again
PollingFairSpec ==
    PollingSpec /\ \A jobId \in JobIds : WF_vars(UpdateProgress(jobId))

\* the SSE server with its clients and its jobs only, each job running
\* to its end
JobStreamInit == server = "sse" /\ Started

JobStreamNext ==
    \/ Events
    \/ \E clientId \in 1 .. MaxClients : ClientCloses(clientId)
    \/ StartJob
    \/ \E jobId \in JobIds, increment \in ProgressIncrements :
           JobProgressRuns(jobId, increment)

JobStreamSpec == JobStreamInit /\ [][JobStreamNext]_vars

\* the two servers that broadcast to their clients
StreamInit == server \in {"sse", "push"} /\ Started

StreamNext == SseNext \/ PushNext

StreamSpec == StreamInit /\ [][StreamNext]_vars

\* the browser functions
TimerInit == server \in Functions /\ Started

TimerNext == DebounceNext \/ HookNext

TimerSpec == TimerInit /\ [][TimerNext]_vars

\* Node runs the callback of every timer that expires.
FairSpec ==
    /\ Spec
    /\ \A jobId \in JobIds : WF_vars(ProcessJob(jobId))
    /\ \A jobId \in JobIds : WF_vars(NextStage(jobId))
    /\ \A jobId \in JobIds : WF_vars(PollTimeout(jobId))
\* ======================================================================
\* Properties
\* ======================================================================
Answered(r) == r \in DOMAIN responses /\ responses[r] # <<>>

Last(seq) == seq[Len(seq)]

\* the requests that have an entry of job jobId in the waiter list wc
WaitersOf(wc, jobId) == {wc[i].res : i \in {k \in DOMAIN wc : wc[k].jobId = jobId}}

\* the job whose state the step changes, if any
Published(jobId) == jobId \in DOMAIN jobs /\ jobs'[jobId] # jobs[jobId]

\* C1: every held poll request is answered at most once: no response
\* object ever gets a second res.json call, whether the first came from its
\* timeout callback or from notifyWaitingClients.
C1_AnsweredAtMostOnce ==
    \A r \in DOMAIN responses : Len(responses[r]) <= 1

\* a request was answered by its timeout callback and its entry is still in
\* waitingClients, where a notification of its job would pick it up
C1_Witness ==
    \E r \in DOMAIN responses : responses[r] = <<"timeout">> /\ InRegistry(r)

\* C2: no waiter is dropped unanswered: no held request is out of
\* waitingClients with its timer cancelled and without a response.
C2_NoWaiterDropped ==
    \A r \in DOMAIN pending : InRegistry(r) \/ Armed(r)

\* C3: when the timeout of a held request fires, the entry removed from
\* waitingClients is that request's own entry, and no other request's timer
\* is cancelled.
C3_TimeoutRemovesOwnEntry ==
    [][\A jobId \in DOMAIN jobs :
          PollTimeout(jobId) =>
              LET res == Head(timers[jobId]).res
              IN  /\ waitingClients' =
                         SelectSeq(waitingClients, LAMBDA client : client.res # res)
                  /\ \A q \in DOMAIN responses :
                         (q # res /\ ArmedIn(timers, q)) => ArmedIn(timers', q)]_vars

\* C4: no missed wakeup: a request that is held on a job and not yet
\* answered when the job's state changes is answered in that step with the
\* changed outcome carrying the new state, and has no other answer.
C4_NoMissedWakeup ==
    [][\A r \in DOMAIN pending :
          Published(pending[r].jobId) =>
              /\ responses'[r] = <<"statusChanged">>
              /\ Answer(r, StatusChangedBody(pending[r].jobId, jobs'[pending[r].jobId]))
                     \in sent']_vars

\* two requests held on the same job have just been answered by one change
C4_Witness ==
    /\ Cardinality(sent) >= 2
    /\ \A a \in sent : a.body.kind = "statusChanged" /\ responses[a.res] = <<"statusChanged">>

\* C5: bounded wait: every held request is eventually answered.
C5_EveryHeldRequestAnswered ==
    \A r \in 1 .. MaxReqs : (r \in DOMAIN pending) ~> Answered(r)

\* C6: a publish is one transaction for waiters: the step that changes a
\* job answers exactly the waiters held on that job, each once and with the
\* job's new state, and removes exactly their entries; entries and timers
\* of waiters held on other jobs stay as they are, and no request that was
\* not held at the change is answered by it.
C6_PublishIsOneTransaction ==
    [][\A jobId \in DOMAIN jobs :
          Published(jobId) =>
              LET W == WaitersOf(waitingClients, jobId)
              IN  /\ sent' = {Answer(r, StatusChangedBody(jobId, jobs'[jobId])) : r \in W}
                  /\ DOMAIN responses' = DOMAIN responses
                  /\ \A r \in DOMAIN responses :
                         responses'[r] = IF r \in W THEN Append(responses[r], "statusChanged")
                                                    ELSE responses[r]
                  /\ waitingClients' =
                         SelectSeq(waitingClients, LAMBDA client : client.jobId # jobId)
                  /\ \A r \in DOMAIN responses :
                         r \notin W => (ArmedIn(timers', r) <=> ArmedIn(timers, r))
                  /\ \A r \in W : ~ArmedIn(timers', r)]_vars

\* a change of one job has just answered its waiter while a waiter of
\* another job stays held with its timer armed
C6_Witness ==
    \E a \in sent :
        /\ a.body.kind = "statusChanged"
        /\ \E i \in DOMAIN waitingClients :
               /\ waitingClients[i].jobId # a.body.jobId
               /\ Armed(waitingClients[i].timeout)
               /\ waitingClients[i].res \in DOMAIN pending

\* C8: no armed timeout timer exists for a request whose response has been
\* sent; in particular not after an answer by a state-change notification.
C8_NoTimerForAnsweredRequest ==
    \A r \in DOMAIN responses : Answered(r) => ~Armed(r)

\* a held request has been answered by a notification while the timer of
\* another held request is still armed
C8_Witness ==
    /\ \E r \in DOMAIN responses : responses[r] = <<"statusChanged">>
    /\ \E q \in DOMAIN responses : Armed(q)

\* C9: outcome matches state: a held request is answered with the changed
\* outcome exactly when its job has been through more stages than when the
\* request was held, and with the timeout outcome only when it has not.
C9_OutcomeMatchesState ==
    [][\A r \in DOMAIN pending :
          responses'[r] # responses[r] =>
              LET newer == currentStage'[pending[r].jobId] > pending[r].stage
              IN  /\ (Last(responses'[r]) = "statusChanged") <=> newer
                  /\ (Last(responses'[r]) = "timeout") => ~newer]_vars

\* one held request was answered by a change and another by its timeout
C9_Witness ==
    /\ \E r \in DOMAIN responses : responses[r] = <<"statusChanged">>
    /\ \E a \in sent : a.body.kind = "timeout" /\ responses[a.res] = <<"timeout">>

\* the known status lastStatus is behind job's state, a request without a
\* known status counting as behind once the job has left 'pending'
Behind(job, lastStatus) ==
    IF lastStatus = "" THEN job.status # "pending" ELSE job.status # lastStatus

\* the poll is answered at once with the job's current state, parks nothing
\* and arms nothing
AnsweredImmediately(jobId) ==
    /\ sent' = {Answer(Len(responses) + 1, ImmediateBody(jobId, jobs[jobId]))}
    /\ responses' = Append(responses, <<"immediate">>)
    /\ waitingClients' = waitingClients
    /\ timers' = timers
    /\ pending' = pending

\* C10 as stated: every poll whose known state is behind the job's state,
\* the poll without a known state included, is answered immediately.
C10_ImmediateOnStale ==
    [][\A jobId \in JobIds, lastStatus \in LastStatusInputs :
          (/\ jobId \in DOMAIN jobs
           /\ Behind(jobs[jobId], lastStatus)
           /\ PollJobStatus(jobId, lastStatus)) => AnsweredImmediately(jobId)]_vars

\* C10 amended: a poll that names a known status other than the job's
\* current status is answered immediately, parks nothing and arms nothing;
\* a poll that names no known status is held, whatever the job's state.
C10_ImmediateOnStaleStatus ==
    [][\A jobId \in JobIds, lastStatus \in LastStatusInputs :
          (/\ jobId \in DOMAIN jobs
           /\ Len(responses') = Len(responses) + 1
           /\ PollJobStatus(jobId, lastStatus)) =>
              /\ (lastStatus # "" /\ jobs[jobId].status # lastStatus)
                     => AnsweredImmediately(jobId)
              /\ lastStatus = ""
                     => /\ sent' = {}
                        /\ RegisteredIn(waitingClients', Len(responses) + 1)
                        /\ ArmedIn(timers', Len(responses) + 1)]_vars

\* a poll has just been answered immediately with a state past 'pending'
C10_Witness ==
    \E a \in sent : a.body.kind = "immediate" /\ a.body.status # "pending"

\* the job id of a request is missing or names no job of the store
Unknown(jobId) == jobId = NoJobId \/ jobId \notin DOMAIN jobs

\* the step parks no waiter, arms no timer and touches no job
NothingParked ==
    /\ jobs' = jobs
    /\ currentStage' = currentStage
    /\ waitingClients' = waitingClients
    /\ timers' = timers
    /\ pending' = pending
    /\ updateIntervals' = updateIntervals
    /\ submitted' = submitted

\* a poll of the long-polling server for an unknown job is answered 404
PollOfUnknownNotFound ==
    \A jobId \in JobIdInputs, lastStatus \in LastStatusInputs :
        (Unknown(jobId) /\ PollJobStatus(jobId, lastStatus)) =>
            /\ sent' = {Answer(Len(responses) + 1, NotFoundBody)}
            /\ responses' = Append(responses, <<"notFound">>)
            /\ NothingParked

C12_TimeoutReportsState ==
    [][\A r \in DOMAIN responses :
          (responses'[r] # responses[r] /\ Last(responses'[r]) = "timeout") =>
              /\ jobs' = jobs
              /\ r \in DOMAIN pending
              /\ sent' = {Answer(r, [kind     |-> "timeout",
                                     jobId    |-> pending[r].jobId,
                                     status   |-> jobs[pending[r].jobId].status,
                                     progress |-> jobs[pending[r].jobId].progress,
                                     result   |-> FALSE])}]_vars

\* a held request has just timed out on a job that went through its stages
C12_Witness ==
    \E a \in sent :
        /\ a.body.kind = "timeout"
        /\ a.body.status = "completed"
        /\ a.body.progress = 100
        /\ responses[a.res] = <<"timeout">>

\* C13: once the client of a held request has disconnected, the request has
\* no entry in waitingClients and no armed timer.
C13_DisconnectReleasesWaiter ==
    \A r \in DOMAIN pending :
        ~pending[r].connected => (~InRegistry(r) /\ ~Armed(r))

\* pending (0), processing (1), completed or failed (2)
StatusRank(status) ==
    IF status = "pending" THEN 0 ELSE IF status = "processing" THEN 1 ELSE 2

\* the answers that report the state of a job
StateAnswers == {"immediate", "statusChanged", "timeout", "status"}

\* C14: per job, the state seen by readers never goes backwards.  Every
\* answer that reports a job carries the state the job has at that moment,
\* and the progress and the status of a job in the store never move back:
\* so an answer never reports less than an earlier answer did.
C14_ReadersNeverGoBack ==
    [][/\ \A jobId \in (DOMAIN jobs) \cap (DOMAIN jobs') :
              /\ jobs'[jobId].progress >= jobs[jobId].progress
              /\ StatusRank(jobs'[jobId].status) >= StatusRank(jobs[jobId].status)
       /\ \A a \in sent' :
              a.body.kind \in StateAnswers =>
                  /\ a.body.jobId \in DOMAIN jobs'
                  /\ a.body.status = jobs'[a.body.jobId].status
                  /\ a.body.progress = jobs'[a.body.jobId].progress]_vars

\* a reader has just seen a job completed that it could see at progress 0
C14_Witness ==
    \E a \in sent :
        /\ a.body.kind \in StateAnswers
        /\ a.body.status = "completed"
        /\ a.body.progress = 100

\* C15 as stated: a job, once created, is never deleted, and a status check
\* for a job id that was handed out never yields not-found.
C15_JobsNeverDeleted ==
    [][/\ DOMAIN jobs \subseteq DOMAIN jobs'
       /\ \A a \in sent' :
              a.body.kind = "notFound" => a.body.jobId \notin 1 .. submitted]_vars

\* C15 amended: the long-polling server never deletes a job.  The
\* short-polling server deletes a job only in its cleanup, and only a job
\* that is completed or failed and more than 10 minutes old; a status check
\* for a job id that was handed out yields not-found only after that.
C15_JobsDeletedOnlyWhenFinishedAndOld ==
    [][/\ server = "longPolling" => DOMAIN jobs \subseteq DOMAIN jobs'
       /\ \A jobId \in (DOMAIN jobs) \ (DOMAIN jobs') :
              /\ Finished(jobs[jobId])
              /\ Old(AgeAtMost(jobs[jobId].cleanups + 1))
              /\ updateIntervals' = updateIntervals
              /\ sent' = {}
       /\ \A a \in sent' :
              (a.body.kind = "notFound" /\ a.body.jobId \in 1 .. submitted) =>
                  a.body.jobId \notin DOMAIN jobs]_vars

\* a status check for a job that was submitted has just yielded not-found
C15_Witness ==
    \E a \in sent : a.body.kind = "notFound" /\ a.body.jobId \in 1 .. submitted

\* the subscribers of the server that runs
Subscribers == IF server = "sse" THEN connectedClients ELSE connections

\* the connection takes what is written to it
IsOpen(c) == conn[c] \in {"open", "connected"}

\* the step broadcasts an event, which gets the number published'
Broadcasts == published' = published + 1

\* the copies of the event of this step that are written to connection c
Copies(c) == Cardinality({i \in DOMAIN written'[c] : written'[c][i].n = published'})

C17_FailedSubscriberRemoved ==
    [][(server = "sse" /\ Broadcasts) =>
          /\ connectedClients' = SelectSeq(connectedClients, IsOpen)
          /\ \A c \in DOMAIN conn :
                 (c \notin Range(connectedClients) \/ ~IsOpen(c)) => written'[c] = <<>>
          /\ \A a \in sent' : a.body.kind = "success"]_vars

\* the first broadcast, triggered by a request, has just removed a
\* subscriber whose response had ended, and the request was answered
C17_Witness ==
    /\ server = "sse"
    /\ published = 1
    /\ \E c \in DOMAIN conn : conn[c] = "ended" /\ c \notin Range(connectedClients)
    /\ \E a \in sent : a.body.kind = "success"

C19_PublishOrder ==
    [][\A c \in DOMAIN conn :
          \A i \in DOMAIN written'[c] :
              written'[c][i].n > 0 =>
                  /\ written'[c][i].n > lastEvent[c]
                  /\ \A k \in 1 .. (i - 1) : written'[c][k].n < written'[c][i].n]_vars

\* a subscriber that was there from the start has just been written the
\* second broadcast after the first
C19_Witness ==
    \E c \in DOMAIN conn :
        /\ joinedAt[c] = 0
        /\ IsOpen(c)
        /\ published = 2
        /\ Len(written[c]) = 1
        /\ written[c][1].n = 2
        /\ c \in Range(Subscribers)

\* C20: broadcasts are not persisted: every broadcast event written to a
\* connection was broadcast after the connection became a subscriber; what
\* it is written on connecting is its greeting and the snapshot only.
C20_NotPersisted ==
    \A c \in DOMAIN written :
        \A i \in DOMAIN written[c] :
            written[c][i].n > 0 => written[c][i].n > joinedAt[c]

\* a client that subscribed after the first broadcast has just been written
\* the second
C20_Witness ==
    \E c \in DOMAIN written :
        /\ joinedAt[c] = 1
        /\ Len(written[c]) = 1
        /\ written[c][1].n = 2

\* C21: a connection that has closed is not among the subscribers, a
\* broadcast writes nothing to it, and no request is answered with an error.
C21_ClosedNotSubscribed ==
    [][/\ \A c \in DOMAIN conn' : conn'[c] = "closed" => c \notin Range(Subscribers')
       /\ Broadcasts =>
              /\ \A c \in DOMAIN conn : conn[c] = "closed" => written'[c] = <<>>
              /\ \A a \in sent' : a.body.kind # "serverError"]_vars

\* the first of two subscribers has closed, and the broadcast after that
\* has just been written to the second one
C21_Witness ==
    /\ Len(conn) = 2
    /\ conn[1] = "closed"
    /\ joinedAt[1] = 0
    /\ published = 1
    /\ Subscribers = <<2>>
    /\ written[1] = <<>>
    /\ Len(written[2]) = 1
    /\ written[2][1].n = 1

\* C22: a connection that is no longer among the subscribers never is
\* again, and the close of such a connection leaves the subscribers as they
\* are and writes nothing to anyone.
C22_ClosedIsTerminal ==
    [][\A c \in DOMAIN conn :
          c \notin Range(Subscribers) =>
              /\ c \notin Range(Subscribers')
              /\ (conn[c] # "closed" /\ conn'[c] = "closed") =>
                     (Subscribers' = Subscribers /\ written' = NoFrames)]_vars

\* a broadcast has removed a subscriber whose response had ended; the other
\* subscriber is still there and the close of the removed one is yet to come
C22_Witness ==
    /\ server = "sse"
    /\ published > 0
    /\ \E c \in DOMAIN conn :
           /\ conn[c] = "ended"
           /\ c \notin Range(connectedClients)
           /\ connectedClients # <<>>

\* the lastKnownStatus of the entry of request r in waitingClients
Recorded(r) ==
    LET i == CHOOSE i \in DOMAIN waitingClients : waitingClients[i].res = r
    IN  waitingClients[i].lastKnownStatus

\* C23: a held request is answered with statusChanged: true only with a
\* status that differs from the lastKnownStatus recorded for it.
C23_ChangedOnlyOnStatusChange ==
    [][\A a \in sent' :
          a.body.kind = "statusChanged" => a.body.status # Recorded(a.res)]_vars

\* the timeout the documentation of the long-polling server gives
DocumentedTimeoutMs == 20000

\* the time left on the timeout timer of request r in ts
TimeLeft(ts, r) ==
    LET j == CHOOSE j \in DOMAIN ts : \E i \in DOMAIN ts[j] :
                 ts[j][i].kind = "pollTimeout" /\ ts[j][i].res = r
        i == CHOOSE i \in DOMAIN ts[j] :
                 ts[j][i].kind = "pollTimeout" /\ ts[j][i].res = r
    IN  ts[j][i].rem

\* C24: a request that is held is given a timeout timer of 20 seconds.
C24_TimeoutAfterTwentySeconds ==
    [][\A r \in (DOMAIN pending') \ (DOMAIN pending) :
          ArmedIn(timers', r) /\ TimeLeft(timers', r) = DocumentedTimeoutMs]_vars

\* the origin of the request of connection c is neither on the list nor empty
Foreign(origins, c) == origins[c] \notin allowedOrigins /\ origins[c] # ""

\* C25: a request whose origin is not allowed is rejected: the step that
\* handles it adds nothing to connections and writes nothing to anyone;
\* no step ever writes to its connection; and connections holds accepted
\* connections only.
C25_OriginValidated ==
    [][server = "push" =>
          /\ \A c \in (DOMAIN conn') \ (DOMAIN conn) :
                 Foreign(requestOrigins', c) =>
                     /\ conn'[c] = "rejected"
                     /\ connections' = connections
                     /\ written' = [k \in DOMAIN conn' |-> <<>>]
          /\ \A c \in DOMAIN conn' :
                 Foreign(requestOrigins', c) =>
                     (written'[c] = <<>> /\ c \notin Range(connections'))
          /\ \A c \in Range(connections') :
                 conn'[c] # "rejected" /\ ~Foreign(requestOrigins', c)]_vars

\* a request from a foreign origin has just been rejected while a client
\* was connected
C25_Witness ==
    /\ server = "push"
    /\ Len(conn) = 2
    /\ conn[1] = "connected"
    /\ conn[2] = "rejected"
    /\ Foreign(requestOrigins, 2)
    /\ connections = <<1>>
    /\ written = <<<<>>, <<>>>>

\* the connections that are connected, in a connection table
Connected(table) == {k \in DOMAIN table : table[k] = "connected"}

\* the connection the step accepts, when it accepts one
Accepted(c) == server = "push" /\ c \notin DOMAIN conn /\ c \in Connected(conn')

\* C26: when a connection is accepted, every client connected before it is
\* written one 'has joined' notification and nothing else, and the new
\* client is written the welcome message only, with the number of
\* connected connections, itself included.
C26_JoinProtocol ==
    [][\A c \in DOMAIN conn' :
          Accepted(c) =>
              /\ \A k \in Connected(conn) : written'[k] = <<JoinedMessage(c)>>
              /\ written'[c] = <<WelcomeMessage(c, Cardinality(Connected(conn')))>>]_vars

\* the connection whose 'close' event the step handles, when it handles one
Closes(c) == server = "push" /\ conn[c] # "closed" /\ conn'[c] = "closed"

\* C27: when a connection closes it is taken out of connections, every
\* other connection that is connected is written one 'has left'
\* notification and nothing else, the other connections are written nothing;
\* connections never holds a connection twice nor a closed one.
C27_LeaveProtocol ==
    [][/\ \A c \in DOMAIN conn :
              Closes(c) =>
                  /\ connections' = SelectSeq(connections, LAMBDA k : k # c)
                  /\ \A k \in DOMAIN conn :
                         written'[k] = IF k \in Connected(conn) \ {c}
                                       THEN <<LeftMessage(c)>> ELSE <<>>
       /\ \A i, k \in DOMAIN connections' :
              connections'[i] = connections'[k] => i = k
       /\ \A c \in Range(connections') : conn'[c] # "closed"]_vars

\* the first of two connections has just closed: it is written nothing and
\* the second is told
C27_Witness ==
    /\ server = "push"
    /\ conn = <<"closed", "connected">>
    /\ connections = <<2>>
    /\ written = <<<<>>, <<LeftMessage(1)>>>>

\* C28: a utf8 message of a client is written once to every connected
\* connection other than the sender's, and to no other connection.
C28_MessageToAllOthers ==
    [][(server = "push" /\ Broadcasts) =>
          \E sender \in Connected(conn) :
              \A k \in DOMAIN conn :
                  written'[k] = IF k \in Connected(conn) \ {sender}
                                THEN <<SaysMessage(published', sender)>> ELSE <<>>]_vars

\* C29: the state of the hook is the condition at the first render; once
\* the condition has gone from true to false with the state true, the state
\* is true before the delay has passed and false after it; and once the
\* hook is unmounted no timer is pending and the state changes no more.
C29_DelayedState ==
    [][/\ (hook.phase = "new" /\ hook'.phase = "mounted") =>
              hook'.state = hook'.condition
       /\ changedAt' >= 0 =>
              /\ now' < changedAt' + delay => hook'.state
              /\ now' > changedAt' + delay => ~hook'.state
       /\ hook'.phase = "unmounted" =>
              /\ \A handle \in DOMAIN scheduled' : ~scheduled'[handle].pending
              /\ hook.phase = "unmounted" => hook'.state = hook.state]_vars

\* the condition went from true to false, the state stayed true for the
\* delay and is false now that the clock has gone past it
C29_Witness ==
    /\ server = "useDelayedState"
    /\ hook.phase = "mounted"
    /\ changedAt >= 0
    /\ now > changedAt + delay
    /\ ~hook.state

\* the index in the log of the last call before entry k, 0 when there is none
LastCallBefore(k) ==
    LET before == {i \in 1 .. (k - 1) : log[i].kind = "call"}
    IN  IF before = {} THEN 0 ELSE CHOOSE i \in before : \A j \in before : j <= i

\* C30: every run of func comes waitTime after the last call before it,
\* with the arguments of that call, and is the only run after that call; no
\* run comes between two calls that are less than waitTime apart; and the
\* clock never gets past waitTime after a call that no run has followed.
C30_DebounceRunsOnceAfterLastCall ==
    /\ \A k \in DOMAIN log :
           log[k].kind = "run" =>
               LET c == LastCallBefore(k)
               IN  /\ c > 0
                   /\ log[k].at = log[c].at + waitTime
                   /\ log[k].args = log[c].args
                   /\ \A i \in (c + 1) .. (k - 1) : log[i].kind # "run"
    /\ \A i, j \in DOMAIN log :
           (i < j /\ log[i].kind = "call" /\ log[j].kind = "call"
                  /\ log[j].at - log[i].at < waitTime) =>
               \A k \in (i + 1) .. (j - 1) : log[k].kind # "run"
    /\ (log # <<>> /\ Last(log).kind = "call") => now <= Last(log).at + waitTime

\* three calls, each one tick after the one before, and then one run of
\* func, waitTime after the third call and with its arguments
C30_Witness ==
    /\ Len(log) = 4
    /\ \A i \in 1 .. 3 : log[i].kind = "call" /\ log[i].at = i - 1
    /\ log[4].kind = "run"
    /\ log[4].at = log[3].at + waitTime
    /\ log[4].args = log[3].args
    /\ log[3].args # log[2].args
    /\ now = MaxTime

\* C32: every entry of waitingClients is of a request that has no answer
\* and whose timeout timer is armed, no request has two entries, and every
\* armed timeout timer is of a request that has an entry.
C32_RegistryAndTimersConsistent ==
    /\ \A i \in DOMAIN waitingClients :
           /\ ~Answered(waitingClients[i].res)
           /\ Armed(waitingClients[i].res)
    /\ \A i, k \in DOMAIN waitingClients :
           waitingClients[i].res = waitingClients[k].res => i = k
    /\ \A r \in DOMAIN responses : Armed(r) => InRegistry(r)

\* the nextStage timer of job jobId is pending
StageTimerPending(jobId) ==
    \E i \in DOMAIN timers[jobId] : timers[jobId][i].kind = "nextStage"

\* C33: the stages of a job are applied one by one in the order of the
\* list, each in a step that answers every waiter of the job and leaves
\* none in waitingClients; the result is set exactly when the job is
\* completed; once the last stage is applied no stage timer is pending;
\* and every job that is created gets to completed with progress 100.
C33_JobTerminates ==
    /\ [][\A jobId \in DOMAIN jobs :
              /\ currentStage'[jobId] \in {currentStage[jobId], currentStage[jobId] + 1}
              /\ currentStage'[jobId] = currentStage[jobId] => jobs'[jobId] = jobs[jobId]
              /\ currentStage'[jobId] = currentStage[jobId] + 1 =>
                     /\ currentStage'[jobId] <= NumStages
                     /\ jobs'[jobId].status = stages[currentStage'[jobId]].status
                     /\ jobs'[jobId].progress = stages[currentStage'[jobId]].progress
                     /\ {a.res : a \in sent'} = WaitersOf(waitingClients, jobId)
                     /\ WaitersOf(waitingClients', jobId) = {}
              /\ jobs'[jobId].result = (jobs'[jobId].status = "completed")
              /\ currentStage'[jobId] = NumStages => ~StageTimerPending(jobId)']_vars
    /\ \A jobId \in JobIds :
           (jobId \in DOMAIN jobs) ~>
               (/\ jobId \in DOMAIN jobs
                /\ jobs[jobId].status = "completed"
                /\ jobs[jobId].progress = 100)

\* a job has been through all its stages: it is completed with its result
\* set, and no timer of it is pending
C33_Witness ==
    \E jobId \in DOMAIN jobs :
        /\ currentStage[jobId] = NumStages
        /\ jobs[jobId] = [status |-> "completed", progress |-> 100, result |-> TRUE]
        /\ timers[jobId] = <<>>

\* the answers of GET /check-status
CheckAnswers == {"status", "jobIdRequired", "notFound"}

\* C35: a short-poll status check never holds and never writes.  The step
\* of GET /check-status answers at once: with the current progress and
\* status of the job, isComplete being true exactly when the status is
\* 'completed' or 'failed'; with 400 exactly when no jobId is given.  It
\* leaves the jobs store and the processing timers as they are, and parks
\* no request.
C35_CheckStatusReadsOnly ==
    [][(server = "shortPolling" /\ \E a \in sent' : a.body.kind \in CheckAnswers) =>
           /\ jobs' = jobs
           /\ updateIntervals' = updateIntervals
           /\ submitted' = submitted
           /\ waitingClients' = waitingClients
           /\ pending' = pending
           /\ Cardinality(sent') = 1
           /\ \A a \in sent' :
                  /\ a.body.kind = "jobIdRequired" <=> a.body.jobId = NoJobId
                  /\ a.body.kind = "notFound" => a.body.jobId \notin DOMAIN jobs
                  /\ a.body.kind = "status" =>
                         /\ a.body.jobId \in DOMAIN jobs
                         /\ a.body.progress = jobs[a.body.jobId].progress
                         /\ a.body.status = jobs[a.body.jobId].status
                         /\ a.body.result = (a.body.status \in {"completed", "failed"})]_vars

\* a check has just reported a job in progress, whose timer still runs,
\* as not complete
C35_Witness ==
    /\ server = "shortPolling"
    /\ \E a \in sent :
           /\ a.body.kind = "status"
           /\ a.body.status = "processing"
           /\ a.body.progress > 0
           /\ ~a.body.result
           /\ a.body.jobId \in updateIntervals

\* C36: the progress of a short-poll job.  The progress of every submitted
\* job is a multiple of 10 between 0 and 100 and never decreases; the
\* status is 'completed' exactly when the progress is 100; the update timer
\* of a job runs exactly until the job is completed, and from then on the
\* progress and the status of the job do not change; every job eventually
\* completes.
C36_ProgressInvariant ==
    /\ [](server = "shortPolling" =>
              \A jobId \in DOMAIN jobs :
                  /\ jobs[jobId].progress \in {ProgressStep * k : k \in 0 .. 100 \div ProgressStep}
                  /\ jobs[jobId].status = "completed" <=> jobs[jobId].progress = 100
                  /\ jobs[jobId].status = "completed" <=> jobId \notin updateIntervals)
    /\ [][server = "shortPolling" =>
              \A jobId \in (DOMAIN jobs) \cap (DOMAIN jobs') :
                  /\ jobs'[jobId].progress >= jobs[jobId].progress
                  /\ jobs[jobId].status = "completed" =>
                         /\ jobs'[jobId].progress = jobs[jobId].progress
                         /\ jobs'[jobId].status = jobs[jobId].status]_vars
    /\ \A jobId \in JobIds :
           (server = "shortPolling" /\ jobId \in DOMAIN jobs) ~>
               (jobId \in DOMAIN jobs /\ jobs[jobId].status = "completed")

\* one job is completed and its timer cleared while another is half way
C36_Witness ==
    /\ server = "shortPolling"
    /\ \E done, half \in DOMAIN jobs :
           /\ jobs[done].status = "completed"
           /\ jobs[done].progress = 100
           /\ done \notin updateIntervals
           /\ jobs[half].progress = 50
           /\ half \in updateIntervals

\* the step is a run of the cleanup over a store that is not empty
CleanupRuns ==
    /\ server = "shortPolling"
    /\ \E jobId \in DOMAIN jobs :
           jobId \in DOMAIN jobs' => jobs'[jobId].cleanups # jobs[jobId].cleanups

\* C37: the short-poll cleanup removes only finished old jobs.  A job
\* leaves the store only if its status is 'completed' or 'failed' and it
\* was created more than 10 minutes before; a job in status 'processing'
\* is never deleted; a cleanup run leaves every job that does not meet both
\* conditions in the store with its progress and status, and adds no job.
C37_CleanupOnlyFinishedOld ==
    [][server = "shortPolling" =>
           /\ \A jobId \in DOMAIN jobs :
                  /\ jobId \notin DOMAIN jobs' =>
                         /\ jobs[jobId].status \in {"completed", "failed"}
                         /\ AgeAtMost(jobs[jobId].cleanups + 1) > MaxAgeMinutes * 60 * 1000
                  /\ jobs[jobId].status = "processing" => jobId \in DOMAIN jobs'
           /\ CleanupRuns =>
                  /\ DOMAIN jobs' \subseteq DOMAIN jobs
                  /\ updateIntervals' = updateIntervals
                  /\ \A jobId \in DOMAIN jobs' :
                         /\ jobs'[jobId].status = jobs[jobId].status
                         /\ jobs'[jobId].progress = jobs[jobId].progress]_vars

\* a cleanup has deleted one job and kept a younger one
C37_Witness ==
    /\ server = "shortPolling"
    /\ \E gone \in 1 .. submitted, kept \in DOMAIN jobs :
           /\ gone \notin DOMAIN jobs
           /\ jobs[kept].cleanups >= 1

\* the job_progress events that the step broadcasts and writes to client c
ProgressFrames(c) ==
    {i \in DOMAIN written'[c] :
         written'[c][i].type = "job_progress" /\ written'[c][i].n > 0}

\* C39: the job progress events of the SSE server are consistent.  For
\* every job started with /simulate/start-job, the progress values that are
\* broadcast do not decrease and are at most 100; an event reports progress
\* 100 only together with status 'completed'; a client gets the event of a
\* step once; and no job_progress event of a job is broadcast after the
\* event that reported it 'completed'.
C39_ProgressEventsConsistent ==
    [][\A c \in DOMAIN written' : \A i \in ProgressFrames(c) :
           LET event == written'[c][i]
           IN  /\ event.value <= 100
               /\ event.value = 100 => event.status = "completed"
               /\ Cardinality({k \in ProgressFrames(c) : written'[c][k].id = event.id}) = 1
               /\ event.id \in DOMAIN jobProgresses =>
                      /\ event.value >= jobProgresses[event.id].progress
                      /\ jobProgresses[event.id].status # "completed"]_vars

\* what GET /events has just written to its client c is the welcome event,
\* then every current stock price, then every current job
WelcomeThenSnapshot(c) ==
    /\ Len(written'[c]) = 1 + Len(Symbols) + Len(jobProgresses)
    /\ written'[c][1].type = "connection"
    /\ written'[c][1].id = c
    /\ \A i \in DOMAIN Symbols :
           /\ written'[c][1 + i].type = "stock_price"
           /\ written'[c][1 + i].key = Symbols[i]
           /\ written'[c][1 + i].value = stockPrices[Symbols[i]]
    /\ \A jobId \in DOMAIN jobProgresses :
           /\ written'[c][1 + Len(Symbols) + jobId].type = "job_progress"
           /\ written'[c][1 + Len(Symbols) + jobId].id = jobId
           /\ written'[c][1 + Len(Symbols) + jobId].value = jobProgresses[jobId].progress
           /\ written'[c][1 + Len(Symbols) + jobId].status = jobProgresses[jobId].status
    /\ \A i \in DOMAIN written'[c] : written'[c][i].n = 0

\* the step writes a broadcast event to connection c
WritesBroadcastTo(c) == \E i \in DOMAIN written'[c] : written'[c][i].n > 0

\* C38 as stated: the SSE connection sequence.  The first event a client of
\* GET /events is written is the 'connection' welcome event, followed by
\* the snapshot of all current stock prices and all current jobs; no
\* broadcast event is written to it before its welcome event; and the
\* client is in connectedClients from the end of that step until its close
\* event.
C38_ConnectionSequence ==
    [][server = "sse" =>
           /\ \A c \in (DOMAIN conn') \ (DOMAIN conn) :
                  /\ WelcomeThenSnapshot(c)
                  /\ c \in Range(connectedClients')
           /\ \A c \in DOMAIN written' : WritesBroadcastTo(c) => c \in DOMAIN conn
           /\ \A c \in DOMAIN conn :
                  /\ conn'[c] = "closed" => c \notin Range(connectedClients')
                  /\ (c \in Range(connectedClients) /\ conn'[c] # "closed") =>
                         c \in Range(connectedClients')]_vars

\* C38 amended: as above, but a client is in connectedClients from the end
\* of the step of GET /events until its close event or until the first
\* broadcast that finds its response ended or that fails to write to it,
\* whichever comes first.
C38_ConnectionSequenceUntilRemoved ==
    [][server = "sse" =>
           /\ \A c \in (DOMAIN conn') \ (DOMAIN conn) :
                  /\ WelcomeThenSnapshot(c)
                  /\ c \in Range(connectedClients')
           /\ \A c \in DOMAIN written' : WritesBroadcastTo(c) => c \in DOMAIN conn
           /\ \A c \in DOMAIN conn :
                  /\ conn'[c] = "closed" => c \notin Range(connectedClients')
                  /\ (c \in Range(connectedClients) /\ conn'[c] # "closed") =>
                         \/ c \in Range(connectedClients')
                         \/ Broadcasts /\ conn[c] \in {"ended", "broken"}]_vars

\* a client has just been welcomed and sent a snapshot with a job in it,
\* after a broadcast removed another client whose close event is yet to come
C38_Witness ==
    /\ server = "sse"
    /\ Len(jobProgresses) >= 1
    /\ \E c, d \in DOMAIN conn :
           /\ Len(written[c]) = 1 + Len(Symbols) + Len(jobProgresses)
           /\ written[c][1].type = "connection"
           /\ written[c][Len(written[c])].type = "job_progress"
           /\ c \in Range(connectedClients)
           /\ conn[d] \in {"ended", "broken"}
           /\ d \notin Range(connectedClients)

\* C34: a client that polls in a loop, re-issuing the wait at once after
\* every answer and carrying forward the status of the last answer,
\* eventually receives an answer with status 'completed' for its job, also
\* when other clients poll the same job in the same way.
C34_LoopSeesCompleted ==
    \A c \in 1 .. MaxLoops :
        (c \in DOMAIN loops) ~> (c \in DOMAIN loops /\ loops[c].lastStatus = "completed")

====
